---- MODULE Spec2Model ----
(***************************************************************************)
(* Model of module_2.1.py: the field validators (Phone, Birthday), Record, *)
(* AddressBook and the Assistant command loop.                             *)
(*                                                                         *)
(* A Python str is a sequence of characters; a character is a one-element  *)
(* TLA+ string.  Two characters outside ASCII are written by code point:   *)
(* "U+00B2" (SUPERSCRIPT TWO) and "U+0663" (ARABIC-INDIC DIGIT THREE).     *)
(* An operation that can raise returns [exc, val]: exc is "none" or the    *)
(* exception's class, val the state the operation leaves behind.           *)
(***************************************************************************)
EXTENDS Integers, Sequences, FiniteSets, TLC

VARIABLES data, last, pc, saved, display

vars == <<data, last, pc, saved, display>>

----------------------------------------------------------------------------
(* Bounds of the model *)

\* longest phone list a record is grown to in SpecRecord
MaxPhones == 3
\* longest phone list a record is grown to in Spec and SpecSession
MaxBookPhones == 1
\* latest time of day of datetime.today(), in ticks after midnight
MaxTime == 1

----------------------------------------------------------------------------
(* Characters and strings *)

AsciiDigits == <<"0", "1", "2", "3", "4", "5", "6", "7", "8", "9">>

IsAsciiDigit(c) == \E i \in 1..10 : AsciiDigits[i] = c

\* str.isdigit() of one character: Numeric_Type Digit or Decimal
IsDigitChar(c) == IsAsciiDigit(c) \/ c = "U+00B2" \/ c = "U+0663"

\* the regular expression class \d on str patterns: Unicode category Nd
IsDecimalChar(c) == IsAsciiDigit(c) \/ c = "U+0663"

\* the digit value int() gives a character of category Nd
DecimalValue(c) ==
    IF c = "U+0663" THEN 3
    ELSE (CHOOSE i \in 1..10 : AsciiDigits[i] = c) - 1

\* str.isdigit(): every character is a digit and there is at least one
isdigit(s) == Len(s) > 0 /\ \A i \in 1..Len(s) : IsDigitChar(s[i])

\* int(s) of a string of \d characters
RECURSIVE int(_)
int(s) ==
    IF Len(s) = 0 THEN 0
    ELSE 10 * int(SubSeq(s, 1, Len(s) - 1)) + DecimalValue(s[Len(s)])

Rep(c, n) == [i \in 1..n |-> c]

----------------------------------------------------------------------------
(* Phone *)

PhoneLen == 10

\* Phone.__init__: the stored value, or ValueError
Phone(value) ==
    IF ~isdigit(value) \/ Len(value) # PhoneLen
    THEN [exc |-> "ValueError", val |-> <<>>]
    ELSE [exc |-> "none", val |-> value]

----------------------------------------------------------------------------
(* Dates: datetime.strptime(value, "%d.%m.%Y") and datetime arithmetic *)

IsLeap(y) == y % 4 = 0 /\ (y % 100 # 0 \/ y % 400 = 0)

DaysInMonth(y, m) ==
    IF m = 2 THEN (IF IsLeap(y) THEN 29 ELSE 28)
    ELSE IF m \in {4, 6, 9, 11} THEN 30 ELSE 31

\* the range check of the datetime constructor (MINYEAR 1, MAXYEAR 9999)
IsDate(y, m, d) ==
    /\ y >= 1 /\ y <= 9999
    /\ m >= 1 /\ m <= 12
    /\ d >= 1 /\ d <= DaysInMonth(y, m)

DaysBeforeYear(y) ==
    (y - 1) * 365 + ((y - 1) \div 4) - ((y - 1) \div 100) + ((y - 1) \div 400)

RECURSIVE DaysBeforeMonth(_, _)
DaysBeforeMonth(y, m) ==
    IF m = 1 THEN 0 ELSE DaysBeforeMonth(y, m - 1) + DaysInMonth(y, m - 1)

\* date.toordinal()
Ordinal(y, m, d) == DaysBeforeYear(y) + DaysBeforeMonth(y, m) + d

\* index of the first "." of s, 0 when there is none
FirstDot(s) ==
    IF \E i \in 1..Len(s) : s[i] = "."
    THEN CHOOSE i \in 1..Len(s) : s[i] = "." /\ \A j \in 1..(i - 1) : s[j] # "."
    ELSE 0

\* %d: 3[0-1]|[1-2]\d|0[1-9]|[1-9]| [1-9]
MatchesDay(t) ==
    \/ Len(t) = 2 /\ t[1] = "3" /\ t[2] \in {"0", "1"}
    \/ Len(t) = 2 /\ t[1] \in {"1", "2"} /\ IsDecimalChar(t[2])
    \/ Len(t) = 2 /\ t[1] = "0" /\ IsAsciiDigit(t[2]) /\ t[2] # "0"
    \/ Len(t) = 1 /\ IsAsciiDigit(t[1]) /\ t[1] # "0"
    \/ Len(t) = 2 /\ t[1] = " " /\ IsAsciiDigit(t[2]) /\ t[2] # "0"

\* %m: 1[0-2]|0[1-9]|[1-9]
MatchesMonth(t) ==
    \/ Len(t) = 2 /\ t[1] = "1" /\ t[2] \in {"0", "1", "2"}
    \/ Len(t) = 2 /\ t[1] = "0" /\ IsAsciiDigit(t[2]) /\ t[2] # "0"
    \/ Len(t) = 1 /\ IsAsciiDigit(t[1]) /\ t[1] # "0"

\* %Y: \d\d\d\d
MatchesYear(t) == Len(t) = 4 /\ \A i \in 1..4 : IsDecimalChar(t[i])

\* the day field read by int(): a leading space is skipped
DayValue(t) == IF t[1] = " " THEN int(Tail(t)) ELSE int(t)

\* datetime.strptime(value, "%d.%m.%Y"): [exc, y, m, d].  The pattern is
\* day "." month "." year matched from the start; text left after the year
\* ("unconverted data remains") and a date out of range are ValueErrors.
strptime(value) ==
    LET i == FirstDot(value)
        D == SubSeq(value, 1, i - 1)
        rest == SubSeq(value, i + 1, Len(value))
        j == FirstDot(rest)
        M == SubSeq(rest, 1, j - 1)
        Y == SubSeq(rest, j + 1, Len(rest))
        bad == [exc |-> "ValueError", y |-> 0, m |-> 0, d |-> 0]
    IN  IF i = 0 \/ j = 0 THEN bad
        ELSE IF ~(MatchesDay(D) /\ MatchesMonth(M) /\ MatchesYear(Y)) THEN bad
        ELSE IF ~IsDate(int(Y), int(M), DayValue(D)) THEN bad
        ELSE [exc |-> "none", y |-> int(Y), m |-> int(M), d |-> DayValue(D)]

\* datetime.replace(year=y) of a date at midnight
ReplaceYear(dt, y) ==
    IF IsDate(y, dt.m, dt.d)
    THEN [exc |-> "none", y |-> y, m |-> dt.m, d |-> dt.d]
    ELSE [exc |-> "ValueError", y |-> 0, m |-> 0, d |-> 0]

Digits2(n) == <<AsciiDigits[(n \div 10) + 1], AsciiDigits[(n % 10) + 1]>>

Digits4(n) == Digits2(n \div 100) \o Digits2(n % 100)

\* datetime.strftime("%d.%m.%Y")
strftime(dt) == Digits2(dt.d) \o <<".">> \o Digits2(dt.m) \o <<".">> \o Digits4(dt.y)

----------------------------------------------------------------------------
(* Birthday *)

NoBirthday == [isNone |-> TRUE, value |-> <<>>]

\* Birthday.__init__: the original string is stored, or ValueError
Birthday(value) ==
    IF strptime(value).exc = "none"
    THEN [exc |-> "none", val |-> [isNone |-> FALSE, value |-> value]]
    ELSE [exc |-> "ValueError", val |-> NoBirthday]

----------------------------------------------------------------------------
(* Record: [name, phones, birthday]; phones is the list of Phone values *)

Record(name) == [name |-> name, phones |-> <<>>, birthday |-> NoBirthday]

\* Record.find_phone: position of the first Phone whose value is phone, 0 for None
find_phone(rec, phone) ==
    IF \E i \in 1..Len(rec.phones) : rec.phones[i] = phone
    THEN CHOOSE i \in 1..Len(rec.phones) :
            /\ rec.phones[i] = phone
            /\ \A j \in 1..(i - 1) : rec.phones[j] # phone
    ELSE 0

\* list.remove of the object at position i
RemoveAt(s, i) == SubSeq(s, 1, i - 1) \o SubSeq(s, i + 1, Len(s))

\* Record.add_phone
add_phone(rec, phone) ==
    LET p == Phone(phone)
    IN  IF p.exc # "none" THEN [exc |-> p.exc, val |-> rec]
        ELSE [exc |-> "none", val |-> [rec EXCEPT !.phones = Append(@, p.val)]]

remove_phoneMutantLast(rec, phone) ==
    LET hits == {i \in 1..Len(rec.phones) : rec.phones[i] = phone}
    IN  IF hits # {}
        THEN [exc |-> "none",
              val |-> [rec EXCEPT !.phones =
                          RemoveAt(@, CHOOSE i \in hits : \A j \in hits : j <= i)]]
        ELSE [exc |-> "ValueError", val |-> rec]

\* Record.remove_phone
remove_phone(rec, phone) ==
    LET phone_to_remove == find_phone(rec, phone)
    IN  IF phone_to_remove # 0
        THEN [exc |-> "none", val |-> [rec EXCEPT !.phones = RemoveAt(@, phone_to_remove)]]
        ELSE [exc |-> "ValueError", val |-> rec]

edit_phoneMutantAddFirst(rec, old_phone, new_phone) ==
    LET added == add_phone(rec, new_phone)
    IN  IF added.exc # "none" THEN added
        ELSE remove_phone(added.val, old_phone)

\* Record.edit_phone
edit_phone(rec, old_phone, new_phone) ==
    LET phone_to_edit == find_phone(rec, old_phone)
    IN  IF phone_to_edit # 0
        THEN LET added == add_phone(rec, new_phone)
             IN  IF added.exc # "none" THEN added
                 ELSE remove_phone(added.val, old_phone)
        ELSE [exc |-> "ValueError", val |-> rec]

\* Record.add_birthday
add_birthday(rec, birthday) ==
    LET b == Birthday(birthday)
    IN  IF b.exc # "none" THEN [exc |-> b.exc, val |-> rec]
        ELSE [exc |-> "none", val |-> [rec EXCEPT !.birthday = b.val]]

----------------------------------------------------------------------------
(* AddressBook: data is the dict, as the sequence of its items in          *)
(* insertion order, each [key, record]                                     *)

Keys(d) == {d[i].key : i \in 1..Len(d)}

\* position of key k in d, 0 when absent
KeyIndex(d, k) ==
    IF k \in Keys(d) THEN CHOOSE i \in 1..Len(d) : d[i].key = k ELSE 0

\* d[k] = rec: an existing key keeps its place, a new key goes last
DictSet(d, k, rec) ==
    IF k \in Keys(d)
    THEN [d EXCEPT ![KeyIndex(d, k)] = [key |-> k, record |-> rec]]
    ELSE Append(d, [key |-> k, record |-> rec])

\* del d[k]
DictDel(d, k) == RemoveAt(d, KeyIndex(d, k))

add_recordMutantAppend(d, record) ==
    Append(d, [key |-> record.name, record |-> record])

add_recordMutantMerge(d, record) ==
    IF record.name \in Keys(d)
    THEN DictSet(d, record.name,
                 [record EXCEPT !.phones = d[KeyIndex(d, record.name)].record.phones \o @])
    ELSE DictSet(d, record.name, record)

\* AddressBook.add_record
add_record(d, record) == DictSet(d, record.name, record)

\* AddressBook.find: [found, record]
find(d, name) ==
    IF name \in Keys(d)
    THEN [found |-> TRUE, record |-> d[KeyIndex(d, name)].record]
    ELSE [found |-> FALSE, record |-> Record(name)]

\* AddressBook.delete
delete(d, name) ==
    IF name \in Keys(d)
    THEN [exc |-> "none", val |-> DictDel(d, name)]
    ELSE [exc |-> "KeyError", val |-> d]

\* datetime comparison a <= b of [o, t]: day ordinal, then time of day
DtLe(a, b) == a.o < b.o \/ (a.o = b.o /\ a.t <= b.t)

\* AddressBook.get_upcoming_birthdays from item i on, with datetime.today()
\* = today, a [y, m, d, t]; strptime and replace give midnight (t = 0)
RECURSIVE UpcomingFrom(_, _, _)
UpcomingFrom(d, i, today) ==
    IF i > Len(d) THEN [exc |-> "none", val |-> <<>>]
    ELSE
      LET record == d[i].record
          rest == UpcomingFrom(d, i + 1, today)
      IN  IF record.birthday.isNone THEN rest
          ELSE
            LET bday_date == strptime(record.birthday.value)
                bday_this_year == ReplaceYear(bday_date, today.y)
                now == [o |-> Ordinal(today.y, today.m, today.d), t |-> today.t]
                next_week == [o |-> now.o + 7, t |-> now.t]
                bday == [o |-> Ordinal(bday_this_year.y, bday_this_year.m,
                                       bday_this_year.d),
                         t |-> 0]
            IN  IF bday_date.exc # "none" \/ bday_this_year.exc # "none"
                THEN [exc |-> "ValueError", val |-> <<>>]
                ELSE IF rest.exc # "none" THEN rest
                ELSE IF DtLe(now, bday) /\ DtLe(bday, next_week)
                THEN [exc |-> "none",
                      val |-> <<[name |-> record.name,
                                 birthday |-> strftime(bday_this_year)]>> \o rest.val]
                ELSE rest

get_upcoming_birthdays(d, today) == UpcomingFrom(d, 1, today)

----------------------------------------------------------------------------
(* Assistant: the command handlers.  args is args.split(), the list of     *)
(* tokens; a handler returns [exc, val, msg]: the book it leaves and the   *)
(* message it displays ("" when it raised before displaying)               *)

\* the found Record is the object the dict holds: a mutation shows in the book
Mutate(d, name, rec) == [d EXCEPT ![KeyIndex(d, name)].record = rec]

\* Assistant.add_contact
add_contact(d, args) ==
    IF Len(args) < 2 THEN [exc |-> "ValueError", val |-> d, msg |-> ""]
    ELSE
      LET name == args[1]
          phone == args[2]
          found == find(d, name)
          record == IF found.found THEN found.record ELSE Record(name)
          d1 == IF found.found THEN d ELSE add_record(d, record)
          message == IF found.found THEN "Contact updated." ELSE "Contact added."
          added == IF Len(phone) > 0 THEN add_phone(record, phone)
                   ELSE [exc |-> "none", val |-> record]
      IN  IF added.exc # "none" THEN [exc |-> added.exc, val |-> d1, msg |-> ""]
          ELSE [exc |-> "none", val |-> Mutate(d1, name, added.val), msg |-> message]

\* Assistant.change_contact
change_contact(d, args) ==
    IF Len(args) # 3 THEN [exc |-> "ValueError", val |-> d, msg |-> ""]
    ELSE
      LET name == args[1]
          found == find(d, name)
          edited == edit_phone(found.record, args[2], args[3])
      IN  IF ~found.found
          THEN [exc |-> "none", val |-> d, msg |-> "Contact not found."]
          ELSE IF edited.exc # "none" THEN [exc |-> edited.exc, val |-> d, msg |-> ""]
          ELSE [exc |-> "none", val |-> Mutate(d, name, edited.val),
                msg |-> "Contact updated."]

\* Assistant.show_phone
show_phone(d, args) ==
    IF Len(args) < 1 THEN [exc |-> "ValueError", val |-> d, msg |-> ""]
    ELSE IF find(d, args[1]).found
    THEN [exc |-> "none", val |-> d, msg |-> "str(record)"]
    ELSE [exc |-> "none", val |-> d, msg |-> "Contact not found."]

\* Assistant.add_birthday
Assistant_add_birthday(d, args) ==
    IF Len(args) # 2 THEN [exc |-> "ValueError", val |-> d, msg |-> ""]
    ELSE
      LET name == args[1]
          found == find(d, name)
          set == add_birthday(found.record, args[2])
      IN  IF ~found.found
          THEN [exc |-> "none", val |-> d, msg |-> "Contact not found."]
          ELSE IF set.exc # "none" THEN [exc |-> set.exc, val |-> d, msg |-> ""]
          ELSE [exc |-> "none", val |-> Mutate(d, name, set.val),
                msg |-> "Birthday added."]

\* Assistant.show_birthday
show_birthday(d, args) ==
    IF Len(args) < 1 THEN [exc |-> "ValueError", val |-> d, msg |-> ""]
    ELSE IF find(d, args[1]).found /\ ~find(d, args[1]).record.birthday.isNone
    THEN [exc |-> "none", val |-> d, msg |-> "Birthday: value"]
    ELSE [exc |-> "none", val |-> d, msg |-> "Birthday not found."]

\* Assistant.upcoming_birthdays
upcoming_birthdays(d, today) ==
    LET birthdays == get_upcoming_birthdays(d, today)
    IN  IF birthdays.exc # "none" THEN [exc |-> birthdays.exc, val |-> d, msg |-> ""]
        ELSE IF Len(birthdays.val) > 0
        THEN [exc |-> "none", val |-> d, msg |-> "name: birthday"]
        ELSE [exc |-> "none", val |-> d, msg |-> "No upcoming birthdays."]

\* Assistant.list_all
list_all(d) ==
    IF Len(d) > 0 THEN [exc |-> "none", val |-> d, msg |-> "str(book)"]
    ELSE [exc |-> "none", val |-> d, msg |-> "No contacts found."]

----------------------------------------------------------------------------
(* Inputs *)

Names == {"Ann", "Bob"}

P1 == Rep("1", PhoneLen)
P2 == Rep("2", PhoneLen)
PSup == Rep("U+00B2", PhoneLen)
PShort == Rep("1", PhoneLen - 1)
PLong == Rep("1", PhoneLen + 1)
PLetter == Rep("1", PhoneLen - 1) \o <<"a">>
PEmpty == <<>>

\* phone strings tried on one record
PhoneInputs == {P1, P2, PSup, PShort, PLong, PLetter, PEmpty}

\* phone strings looked up in one record: those a list can hold, and one it cannot
OldPhoneInputs == {P1, P2, PSup, PShort}

\* phone strings tried on the records of a book
BookPhoneInputs == {P1, P2, PShort}

DateStr(dd, mm, yyyy) == dd \o <<".">> \o mm \o <<".">> \o yyyy

B_29_02_2000 == DateStr(<<"2", "9">>, <<"0", "2">>, <<"2", "0", "0", "0">>)
B_29_02_2001 == DateStr(<<"2", "9">>, <<"0", "2">>, <<"2", "0", "0", "1">>)
B_31_04_2020 == DateStr(<<"3", "1">>, <<"0", "4">>, <<"2", "0", "2", "0">>)
B_01_01_2000 == DateStr(<<"0", "1">>, <<"0", "1">>, <<"2", "0", "0", "0">>)
B_1_1_2000 == DateStr(<<"1">>, <<"1">>, <<"2", "0", "0", "0">>)
B_sp1_01_2000 == DateStr(<<" ", "1">>, <<"0", "1">>, <<"2", "0", "0", "0">>)
B_1ar3_01_2000 == DateStr(<<"1", "U+0663">>, <<"0", "1">>, <<"2", "0", "0", "0">>)
B_01_01_0000 == DateStr(<<"0", "1">>, <<"0", "1">>, <<"0", "0", "0", "0">>)
B_01_01_20000 == DateStr(<<"0", "1">>, <<"0", "1">>, <<"2", "0", "0", "0", "0">>)
B_01_13_2000 == DateStr(<<"0", "1">>, <<"1", "3">>, <<"2", "0", "0", "0">>)
B_dashes == <<"0", "1", "-", "0", "1", "-", "2", "0", "0", "0">>
B_iso == <<"2", "0", "0", "0", ".", "0", "1", ".", "0", "1">>

\* birthday strings tried on one record
BirthdayInputs ==
    {B_29_02_2000, B_29_02_2001, B_31_04_2020, B_01_01_2000, B_1_1_2000,
     B_sp1_01_2000, B_1ar3_01_2000, B_01_01_0000, B_01_01_20000, B_01_13_2000,
     B_dashes, B_iso, <<>>}

\* birthday strings tried on the records of a book
BookBirthdayInputs == {B_01_01_2000, B_29_02_2001}

B_01_06 == DateStr(<<"0", "1">>, <<"0", "6">>, <<"1", "9", "9", "0">>)
B_08_06 == DateStr(<<"0", "8">>, <<"0", "6">>, <<"1", "9", "9", "0">>)
B_09_06 == DateStr(<<"0", "9">>, <<"0", "6">>, <<"1", "9", "9", "0">>)
B_31_05 == DateStr(<<"3", "1">>, <<"0", "5">>, <<"1", "9", "9", "0">>)
B_29_12 == DateStr(<<"2", "9">>, <<"1", "2">>, <<"1", "9", "9", "0">>)
B_03_01 == DateStr(<<"0", "3">>, <<"0", "1">>, <<"1", "9", "9", "0">>)

\* birthday strings of the records the upcoming-birthday query runs over
WindowBirthdayInputs ==
    {B_01_06, B_08_06, B_09_06, B_31_05, B_29_12, B_03_01, B_29_02_2000}

\* calendar dates of datetime.today()
TodayDates ==
    {[y |-> 2024, m |-> 6, d |-> 1], [y |-> 2023, m |-> 6, d |-> 1],
     [y |-> 2024, m |-> 5, d |-> 25], [y |-> 2024, m |-> 12, d |-> 30],
     [y |-> 2024, m |-> 2, d |-> 22], [y |-> 2023, m |-> 2, d |-> 22]}

\* values of datetime.today(): a date and a time of day
Todays ==
    {[y |-> x.y, m |-> x.m, d |-> x.d, t |-> t] : x \in TodayDates, t \in 0..MaxTime}

\* records a caller builds with Record(name), add_phone and add_birthday
BuiltRecords ==
    {[name |-> n, phones |-> ps, birthday |-> b] :
        n \in Names,
        ps \in {<<>>, <<P1>>, <<P2>>},
        b \in {NoBirthday, Birthday(B_01_01_2000).val}}

\* argument lists of the handlers
AddArgs == {<<n, p>> : n \in Names, p \in BookPhoneInputs} \cup {<<"Ann">>, <<>>}
ChangeArgs ==
    {<<n, p, q>> : n \in Names, p \in {P1, P2}, q \in BookPhoneInputs}
        \cup {<<"Ann", P1>>}
BirthdayArgs ==
    {<<n, b>> : n \in Names, b \in BookBirthdayInputs \cup {B_29_02_2000}}
        \cup {<<"Ann">>}
NameArgs == {<<n>> : n \in Names} \cup {<<>>}

----------------------------------------------------------------------------
(* Calls of the Record and AddressBook interface.  last is the call just   *)
(* made: its arguments, what it raised, what it returned and the book      *)
(* before it                                                               *)

NoCall == [op |-> "none", args |-> <<>>, exc |-> "none", before |-> <<>>,
           result |-> <<>>]

Call(op, args, exc, after, result) ==
    /\ data' = after
    /\ last' = [op |-> op, args |-> args, exc |-> exc, before |-> data,
                result |-> result]
    /\ UNCHANGED <<pc, saved, display>>

\* book.find(name).add_phone(p)
AddPhone(name, p, max) ==
    LET found == find(data, name)
        r == add_phone(found.record, p)
    IN  /\ found.found
        /\ Len(found.record.phones) < max
        /\ Call("add_phone", <<name, p>>, r.exc, Mutate(data, name, r.val), <<>>)

\* book.find(name).remove_phone(p)
RemovePhone(name, p) ==
    LET found == find(data, name)
        r == remove_phone(found.record, p)
    IN  /\ found.found
        /\ Call("remove_phone", <<name, p>>, r.exc, Mutate(data, name, r.val), <<>>)

\* book.find(name).edit_phone(old, new)
EditPhone(name, old, new) ==
    LET found == find(data, name)
        r == edit_phone(found.record, old, new)
    IN  /\ found.found
        /\ Call("edit_phone", <<name, old, new>>, r.exc, Mutate(data, name, r.val), <<>>)

\* book.find(name).find_phone(p)
FindPhone(name, p) ==
    LET found == find(data, name)
    IN  /\ found.found
        /\ Call("find_phone", <<name, p>>, "none", data,
                <<find_phone(found.record, p)>>)

\* book.find(name).add_birthday(b)
AddBirthday(name, b) ==
    LET found == find(data, name)
        r == add_birthday(found.record, b)
    IN  /\ found.found
        /\ Call("add_birthday", <<name, b>>, r.exc, Mutate(data, name, r.val), <<>>)

\* book.add_record(record)
AddRecord(record) ==
    Call("add_record", <<record>>, "none", add_record(data, record), <<>>)

\* book.delete(name)
Delete(name) ==
    LET r == delete(data, name)
    IN  Call("delete", <<name>>, r.exc, r.val, <<>>)

\* book.get_upcoming_birthdays() at datetime.today() = today
GetUpcomingBirthdays(today) ==
    LET r == get_upcoming_birthdays(data, today)
    IN  Call("get_upcoming_birthdays", <<today>>, r.exc, data, r.val)

\* the handlers called on the book
AddContact(args) ==
    LET r == add_contact(data, args)
    IN  /\ \A i \in 1..Len(r.val) : Len(r.val[i].record.phones) <= MaxBookPhones
        /\ Call("add_contact", args, r.exc, r.val, <<>>)

ChangeContact(args) ==
    LET r == change_contact(data, args)
    IN  Call("change_contact", args, r.exc, r.val, <<>>)

AssistantAddBirthday(args) ==
    LET r == Assistant_add_birthday(data, args)
    IN  Call("Assistant.add_birthday", args, r.exc, r.val, <<>>)

----------------------------------------------------------------------------
(* Specifications of the interface *)

InitBook ==
    /\ data = <<>>
    /\ last = NoCall
    /\ pc = "running"
    /\ saved = [written |-> FALSE, book |-> <<>>]
    /\ display = ""

\* the address book and its records, called in any order
Next ==
    \/ \E r \in BuiltRecords : AddRecord(r)
    \/ \E n \in Names : Delete(n)
    \/ \E n \in Names, p \in BookPhoneInputs : AddPhone(n, p, MaxBookPhones)
    \/ \E n \in Names, p \in BookPhoneInputs : RemovePhone(n, p)
    \/ \E n \in Names, p \in BookPhoneInputs, q \in BookPhoneInputs : EditPhone(n, p, q)
    \/ \E n \in Names, b \in BookBirthdayInputs : AddBirthday(n, b)
    \/ \E a \in AddArgs : AddContact(a)
    \/ \E a \in ChangeArgs : ChangeContact(a)
    \/ \E a \in BirthdayArgs : AssistantAddBirthday(a)

Spec == InitBook /\ [][Next]_vars

\* one record, Record("Ann") added to an empty book
InitRecord ==
    /\ data = add_record(<<>>, Record("Ann"))
    /\ last = NoCall
    /\ pc = "running"
    /\ saved = [written |-> FALSE, book |-> <<>>]
    /\ display = ""

NextRecord ==
    \/ \E p \in PhoneInputs : AddPhone("Ann", p, MaxPhones)
    \/ \E p \in OldPhoneInputs : RemovePhone("Ann", p)
    \/ \E p \in OldPhoneInputs, q \in PhoneInputs : EditPhone("Ann", p, q)
    \/ \E p \in OldPhoneInputs : FindPhone("Ann", p)

SpecRecord == InitRecord /\ [][NextRecord]_vars

\* records with birthdays, and the upcoming-birthday query
NextBirthdays ==
    \/ \E n \in Names : AddRecord(Record(n))
    \/ \E n \in Names, b \in WindowBirthdayInputs \cup BirthdayInputs : AddBirthday(n, b)
    \/ \E today \in Todays : GetUpcomingBirthdays(today)

SpecBirthdays == InitBook /\ [][NextBirthdays]_vars

----------------------------------------------------------------------------
(* Assistant.run: the command loop.  A line read is user_input.split(),    *)
(* its tokens: parts[0] is the command, the others args.split().  pc is    *)
(* "running" in the loop, "exited" after the break and "crashed" when an   *)
(* exception left run(); saved is the file save_data writes                *)

Commands ==
    {"add", "change", "phone", "add-birthday", "show-birthday", "birthdays", "all"}

\* the lines typed
Lines ==
    {<<>>, <<"close">>, <<"exit">>, <<"hello">>, <<"all">>, <<"birthdays">>,
     <<"add">>, <<"add", "Ann">>, <<"add", "Ann", P1>>, <<"add", "Ann", PShort>>,
     <<"add", "Bob", P2>>, <<"add", "Bob", PLetter>>,
     <<"change">>, <<"change", "Ann", P1, P2>>, <<"change", "Ann", P2, P1>>,
     <<"change", "Ann", P1, PShort>>, <<"change", "Bob", P1, P2>>,
     <<"phone">>, <<"phone", "Ann">>, <<"phone", "Bob">>,
     <<"add-birthday", "Ann">>, <<"add-birthday", "Ann", B_29_02_2000>>,
     <<"add-birthday", "Ann", B_08_06>>, <<"add-birthday", "Bob", B_31_04_2020>>,
     <<"show-birthday">>, <<"show-birthday", "Ann">>, <<"show-birthday", "Bob">>}

\* the clock when the birthdays command runs
SessionTodays ==
    {[y |-> 2024, m |-> 6, d |-> 1, t |-> 0], [y |-> 2023, m |-> 6, d |-> 1, t |-> 0]}

\* one pass of the loop body that ran handler r on line: an exception leaves run()
Handled(line, r) ==
    /\ data' = r.val
    /\ last' = [op |-> line[1], args |-> Tail(line), exc |-> r.exc, before |-> data,
                result |-> <<>>]
    /\ pc' = IF r.exc = "none" THEN "running" ELSE "crashed"
    /\ display' = IF r.exc = "none" THEN r.msg ELSE display
    /\ UNCHANGED saved

\* parts[0] of an empty line
ReadEmptyLine ==
    /\ pc = "running"
    /\ \E line \in Lines :
        /\ Len(line) = 0
        /\ last' = [op |-> "", args |-> <<>>, exc |-> "IndexError", before |-> data,
                    result |-> <<>>]
        /\ pc' = "crashed"
        /\ UNCHANGED <<data, saved, display>>

\* close, exit: save_data, "Good bye!", break
CmdExit ==
    /\ pc = "running"
    /\ \E line \in Lines :
        /\ Len(line) > 0 /\ line[1] \in {"close", "exit"}
        /\ saved' = [written |-> TRUE, book |-> data]
        /\ display' = "Good bye!"
        /\ pc' = "exited"
        /\ last' = [op |-> line[1], args |-> Tail(line), exc |-> "none",
                    before |-> data, result |-> <<>>]
        /\ UNCHANGED data

CmdAdd ==
    /\ pc = "running"
    /\ \E line \in Lines :
        /\ Len(line) > 0 /\ line[1] = "add"
        /\ LET r == add_contact(data, Tail(line))
           IN  /\ \A i \in 1..Len(r.val) : Len(r.val[i].record.phones) <= MaxBookPhones
               /\ Handled(line, r)

CmdChange ==
    /\ pc = "running"
    /\ \E line \in Lines :
        /\ Len(line) > 0 /\ line[1] = "change"
        /\ Handled(line, change_contact(data, Tail(line)))

CmdPhone ==
    /\ pc = "running"
    /\ \E line \in Lines :
        /\ Len(line) > 0 /\ line[1] = "phone"
        /\ Handled(line, show_phone(data, Tail(line)))

CmdAddBirthday ==
    /\ pc = "running"
    /\ \E line \in Lines :
        /\ Len(line) > 0 /\ line[1] = "add-birthday"
        /\ Handled(line, Assistant_add_birthday(data, Tail(line)))

CmdShowBirthday ==
    /\ pc = "running"
    /\ \E line \in Lines :
        /\ Len(line) > 0 /\ line[1] = "show-birthday"
        /\ Handled(line, show_birthday(data, Tail(line)))

CmdBirthdays ==
    /\ pc = "running"
    /\ \E line \in Lines, today \in SessionTodays :
        /\ Len(line) > 0 /\ line[1] = "birthdays"
        /\ Handled(line, upcoming_birthdays(data, today))

CmdAll ==
    /\ pc = "running"
    /\ \E line \in Lines :
        /\ Len(line) > 0 /\ line[1] = "all"
        /\ Handled(line, list_all(data))

\* no handler: "Invalid command."
CmdInvalid ==
    /\ pc = "running"
    /\ \E line \in Lines :
        /\ Len(line) > 0 /\ line[1] \notin Commands \cup {"close", "exit"}
        /\ Handled(line, [exc |-> "none", val |-> data, msg |-> "Invalid command."])

NextSession ==
    \/ ReadEmptyLine
    \/ CmdExit
    \/ CmdAdd
    \/ CmdChange
    \/ CmdPhone
    \/ CmdAddBirthday
    \/ CmdShowBirthday
    \/ CmdBirthdays
    \/ CmdAll
    \/ CmdInvalid

\* Assistant(view).run() with no addressbook.pkl: load_data gives AddressBook()
SpecSession == InitBook /\ [][NextSession]_vars

----------------------------------------------------------------------------
(* Properties *)

InList(s, x) == \E i \in 1..Len(s) : s[i] = x

Count(s, x) == Cardinality({i \in 1..Len(s) : s[i] = x})

\* s without its first entry equal to x
RECURSIVE RemoveFirst(_, _)
RemoveFirst(s, x) ==
    IF Len(s) = 0 THEN <<>>
    ELSE IF Head(s) = x THEN Tail(s)
    ELSE <<Head(s)>> \o RemoveFirst(Tail(s), x)

\* exactly ten characters, each one of 0-9
IsTenAsciiDigits(s) == Len(s) = 10 /\ \A i \in 1..Len(s) : IsAsciiDigit(s[i])

\* DD.MM.YYYY, zero-padded, of 0-9, a date of the calendar
IsPaddedDate(s) ==
    /\ Len(s) = 10
    /\ s[3] = "." /\ s[6] = "."
    /\ \A i \in {1, 2, 4, 5, 7, 8, 9, 10} : IsAsciiDigit(s[i])
    /\ IsDate(int(SubSeq(s, 7, 10)), int(SubSeq(s, 4, 5)), int(SubSeq(s, 1, 2)))

\* the phone list of the record under key name in book d
PhonesIn(d, name) == d[CHOOSE i \in 1..Len(d) : d[i].key = name].record.phones

\* the phone list the last call was made on, before and after it
PhonesBefore == PhonesIn(last.before, last.args[1])
PhonesAfter == PhonesIn(data, last.args[1])

\* C1: whenever get_upcoming_birthdays has returned, a record with a birthday
\* is in the result if and only if its occurrence date in today's year lies
\* in [date(today), date(today) + 7 days], whatever the time of day.
C1_WindowByCalendarDay ==
    (last.op = "get_upcoming_birthdays" /\ last.exc = "none") =>
        LET today == last.args[1]
            ot == Ordinal(today.y, today.m, today.d)
        IN  \A i \in 1..Len(data) :
                ~data[i].record.birthday.isNone =>
                    LET b == strptime(data[i].record.birthday.value)
                        od == Ordinal(today.y, b.m, b.d)
                    IN  (\E k \in 1..Len(last.result) :
                            last.result[k].name = data[i].record.name)
                        <=> (ot <= od /\ od <= ot + 7)

\* C2: edit_phone(old, new) with old in the list and new not ten digits 0-9
\* raises the validation error and leaves the phone list as it was.
C2_InvalidNewLeavesListUnchanged ==
    (/\ last.op = "edit_phone"
     /\ InList(PhonesBefore, last.args[2])
     /\ ~IsTenAsciiDigits(last.args[3]))
        => (last.exc = "ValueError" /\ data = last.before)

\* C3 as stated: edit_phone(old, new) with old in the list and new valid
\* succeeds, the list is the old one without the first old and with new at
\* the tail, of the same length, and when new was already in the list it now
\* holds (at least) two entries of that value.
C3_AsStated ==
    /\ (/\ last.op = "edit_phone"
        /\ InList(PhonesBefore, last.args[2])
        /\ IsTenAsciiDigits(last.args[3]))
           => last.exc = "none"
    /\ (last.op = "edit_phone" /\ last.exc = "none") =>
           /\ PhonesAfter = Append(RemoveFirst(PhonesBefore, last.args[2]), last.args[3])
           /\ Len(PhonesAfter) = Len(PhonesBefore)
           /\ InList(PhonesBefore, last.args[3]) => Count(PhonesAfter, last.args[3]) >= 2

\* C3 as amended: the same, but the count of entries equal to new grows by
\* one (to two or more) only when new differs from old; when new equals old
\* the count of that value is unchanged (it may be one).
C3_EditMovesToTail ==
    /\ (/\ last.op = "edit_phone"
        /\ InList(PhonesBefore, last.args[2])
        /\ IsTenAsciiDigits(last.args[3]))
           => last.exc = "none"
    /\ (last.op = "edit_phone" /\ last.exc = "none") =>
           /\ PhonesAfter = Append(RemoveFirst(PhonesBefore, last.args[2]), last.args[3])
           /\ Len(PhonesAfter) = Len(PhonesBefore)
           /\ (InList(PhonesBefore, last.args[3]) /\ last.args[3] # last.args[2]) =>
                 /\ Count(PhonesAfter, last.args[3]) = Count(PhonesBefore, last.args[3]) + 1
                 /\ Count(PhonesAfter, last.args[3]) >= 2
           /\ last.args[3] = last.args[2] =>
                 Count(PhonesAfter, last.args[3]) = Count(PhonesBefore, last.args[3])

\* an edit of [old, new, old] to new: the first old goes, new is there twice
C3_Witness ==
    /\ last.op = "edit_phone" /\ last.exc = "none"
    /\ last.args[3] # last.args[2]
    /\ Len(PhonesBefore) = 3
    /\ PhonesBefore[1] = last.args[2] /\ PhonesBefore[3] = last.args[2]
    /\ PhonesBefore[2] = last.args[3]

\* C4: remove_phone(p) and edit_phone(p, new) on a record without p raise
\* and leave the book as it was, for any new; delete(name) of an absent name
\* raises and leaves the book as it was.
C4_MissingValueChangesNothing ==
    /\ (last.op = "remove_phone" /\ ~InList(PhonesBefore, last.args[2]))
          => (last.exc = "ValueError" /\ data = last.before)
    /\ (last.op = "edit_phone" /\ ~InList(PhonesBefore, last.args[2]))
          => (last.exc = "ValueError" /\ data = last.before)
    /\ (last.op = "delete" /\ last.args[1] \notin Keys(last.before))
          => (last.exc = "KeyError" /\ data = last.before)

\* edit_phone of an absent phone to a valid one, on a record that has a phone
C4_Witness ==
    /\ last.op = "edit_phone" /\ last.exc = "ValueError"
    /\ ~InList(PhonesBefore, last.args[2])
    /\ IsTenAsciiDigits(last.args[3])
    /\ Len(PhonesBefore) > 0
    /\ Len(data) = 2

\* C5: Birthday(value) succeeds exactly for zero-padded DD.MM.YYYY strings
\* that are calendar dates, and then stores the string as given.
C5_BirthdayAcceptsOnlyPaddedDates ==
    last.op = "add_birthday" =>
        /\ last.exc = "none" <=> IsPaddedDate(last.args[2])
        /\ last.exc = "none" =>
              find(data, last.args[1]).record.birthday
                  = [isNone |-> FALSE, value |-> last.args[2]]

\* C6: Phone(value) succeeds exactly for strings of ten characters 0-9, so
\* every entry of a phone list is such a string.
C6_PhoneAcceptsOnlyTenAsciiDigits ==
    /\ last.op = "add_phone" => (last.exc = "none" <=> IsTenAsciiDigits(last.args[2]))
    /\ \A i \in 1..Len(data) :
          \A k \in 1..Len(data[i].record.phones) :
              IsTenAsciiDigits(data[i].record.phones[k])

\* C7: every key of the book maps to a record of that name, and no name is
\* under two keys.
C7_KeyIsRecordName ==
    /\ \A i \in 1..Len(data) : data[i].key = data[i].record.name
    /\ \A i, j \in 1..Len(data) :
          i # j => (data[i].key # data[j].key
                    /\ data[i].record.name # data[j].record.name)

\* add_contact put a new record in the book and then raised on its phone
C7_Witness ==
    /\ last.op = "add_contact" /\ last.exc = "ValueError"
    /\ Len(last.before) = 1 /\ Len(data) = 2
    /\ Len(data[1].record.phones) > 0

\* C8: add_record(r) over an existing name leaves find(name) = r with r's
\* phones and birthday, the same set of names, and the other entries as they
\* were.
C8_AddRecordReplaces ==
    (last.op = "add_record" /\ last.args[1].name \in Keys(last.before)) =>
        /\ find(data, last.args[1].name) = [found |-> TRUE, record |-> last.args[1]]
        /\ Keys(data) = Keys(last.before)
        /\ \A k \in Keys(last.before) \ {last.args[1].name} :
              find(data, k) = find(last.before, k)

\* a record with a phone and a birthday replaced by one with another phone
\* and no birthday, beside a second record
C8_Witness ==
    /\ last.op = "add_record"
    /\ last.args[1].name \in Keys(last.before)
    /\ Len(last.before) = 2
    /\ LET old == find(last.before, last.args[1].name).record
       IN  /\ Len(old.phones) > 0
           /\ ~old.birthday.isNone
           /\ Len(last.args[1].phones) > 0
           /\ last.args[1].phones # old.phones
           /\ last.args[1].birthday.isNone

\* C9: the session ends only on close or exit, and then the book has been
\* saved as it is.
C9_EndsOnlyByExitAfterSnapshot ==
    pc # "running" =>
        /\ last.op \in {"close", "exit"}
        /\ saved = [written |-> TRUE, book |-> data]

\* C10: get_upcoming_birthdays raises nothing on a book whose birthdays all
\* passed Birthday.
C10_QueryNeverRaises ==
    last.op = "get_upcoming_birthdays" => last.exc = "none"

====
